---- MODULE Spec2Model ----
(***************************************************************************)
(* A model of multi_account_twitter_bot.py: the text normalizer, the       *)
(* profile rotator, the post fetcher, the parallel commentary phase, the   *)
(* reply dispatcher, the reply-queue mode and the persisted-file           *)
(* read-modify-write cycles, each as a state machine over the variables    *)
(* it touches.  Strings that the code inspects character by character are  *)
(* sequences of one-character strings.                                     *)
(***************************************************************************)
EXTENDS Integers, Sequences, FiniteSets, TLC

VARIABLES
    \* ---- clean_text ----
    nz_pc,          \* "idle" | "input" | "cleaned"
    text,           \* the argument of clean_text
    cleaned,        \* its return value
    \* ---- select_profiles ----
    all_profiles,   \* the lines of profiles.txt, in order
    recent_file,    \* the "recent" list of recent_profiles.json
    recent,         \* the list select_profiles read at the start of its last call
    candidates,     \* the list its last call sampled from
    fell_back,      \* whether its last call took the branch of line 178
    selected,       \* what its last call returned
    rot_calls,      \* calls of select_profiles so far
    \* ---- fetch_tweets ----
    ft_pc,          \* "idle" | "iterating" | "returned"
    dataset,        \* every item of the backend's dataset for this run
    pending,        \* the items iterate_items has not yielded yet
    first_posts,    \* per profile, the first item with text the stream yielded
    all_tweets,     \* the dict of line 192: profile -> retained tweets
    fetched_tweets, \* the return value
    \* ---- generate_replies_parallel ----
    gp_pc,          \* "idle" | "running" | "returned"
    tweets,         \* the argument: the posts, annotated in place
    max_workers,    \* MAX_PARALLEL
    fut_state,      \* per submitted future: "queued" | "running" | "done"
    fut_result,     \* per future: what its call returned or that it raised
    yielded,        \* the futures as_completed has yielded, in that order
    \* ---- process configuration ----
    DRY_RUN, ATTACH_MEDIA,
    images_dir,     \* whether IMAGES_DIR exists, and its files
    n_clients,      \* len(clients)
    \* ---- the dispatch loops of fetch_and_reply and queue_reply ----
    dp_pc,          \* "idle" | "loop" | "done" | "aborted"
    dp_tweets,      \* the sequence the loop enumerates
    idx,            \* the 0-based position of the next post
    replies_sent,
    attempts,       \* this run's calls of post_reply_with_account: position, account
    uploads,        \* this run's calls of api.simple_upload
    creates,        \* this run's calls of client.create_tweet
    log_file,       \* the "logs" list of bot_logs.json
    raised,         \* this run's calls in which the upload or the publish raised
    \* ---- queue_reply ----
    queue_file,     \* reply_queue.json: profile -> pending post records
    queue_before,   \* its content before the first run
    q_runs,         \* finished runs of queue_reply
    \* ---- process instances sharing the persisted files ----
    n_inst,         \* how many instances run
    inst_pc,        \* per instance, its position
    inst_recent,    \* per instance, the memory it read (line 175)
    inst_selected,  \* per instance, its selection (line 180)
    inst_logs,      \* per instance, the logs it read (line 153)
    inst_logged,    \* per instance, its finished calls of log_action
    appended,       \* every entry a finished log_action call appended
    last_writer,    \* the instance that saved the memory file last (0: none)
    overwritten     \* whether a save replaced a content its writer had not read

nzVars  == <<nz_pc, text, cleaned>>
rotVars == <<all_profiles, recent_file, recent, candidates, fell_back, selected, rot_calls>>
ftVars  == <<ft_pc, dataset, pending, first_posts, all_tweets, fetched_tweets>>
gpVars  == <<gp_pc, tweets, max_workers, fut_state, fut_result, yielded>>
cfgVars == <<DRY_RUN, ATTACH_MEDIA, images_dir, n_clients>>
dpVars  == <<dp_pc, dp_tweets, idx, replies_sent, attempts, uploads, creates,
             log_file, raised>>
qVars   == <<queue_file, queue_before, q_runs>>
rcVars  == <<n_inst, inst_pc, inst_recent, inst_selected, inst_logs, inst_logged,
             appended, last_writer, overwritten>>

vars == <<nzVars, rotVars, ftVars, gpVars, cfgVars, dpVars, qVars, rcVars>>

----------------------------------------------------------------------------
(* Sequence helpers (Python slicing and searching, 1-based here).          *)

Range(s) == {s[i] : i \in DOMAIN s}

\* s[:n] for n >= 0
Take(s, n) == SubSeq(s, 1, IF n < Len(s) THEN n ELSE Len(s))

\* s[:n] for any integer n: a negative n counts from the end
PySlice(s, n) == IF n >= 0 THEN Take(s, n)
                 ELSE Take(s, IF Len(s) + n > 0 THEN Len(s) + n ELSE 0)

\* s.rfind(c): the 0-based index of the last c in s, -1 when there is none
RFind(s, c) ==
    LET hits == {i \in DOMAIN s : s[i] = c}
    IN  IF hits = {} THEN -1
        ELSE (CHOOSE i \in hits : \A j \in hits : j <= i) - 1

Max2(a, b) == IF a >= b THEN a ELSE b

----------------------------------------------------------------------------
(* clean_text                                                              *)

Digits      == {"0", "1", "2"}
Whitespace  == {" ", "\n", "\t"}
Terminators == {"|", ".", "?", "!"}     \* "|" stands for the Devanagari danda
Ellipsis    == <<".", ".", ".">>

MAX_CHARS == 273
MIN_STOP  == 200

\* The end of a match of \[\d+\] starting at i (its "]"), 0 when none starts there.
CitationEnd(s, i) ==
    IF s[i] # "[" \/ i = Len(s) THEN 0
    ELSE LET run == CHOOSE k \in 0..(Len(s) - i) :
                        /\ \A j \in (i+1)..(i+k) : s[j] \in Digits
                        /\ (i + k = Len(s) \/ s[i+k+1] \notin Digits)
         IN  IF run > 0 /\ i + run < Len(s) /\ s[i+run+1] = "]"
             THEN i + run + 1 ELSE 0

\* Whether place i lies in a match of \[\d+\].  Two matches never overlap ("["
\* only opens one and "]" only closes one), so the left-to-right scan of re.sub
\* finds every occurrence, and a chain of them is dropped like each alone.
InCitation(s, i) ==
    /\ s[i] \in Digits \cup {"[", "]"}
    /\ \E a \in 1..i : s[a] = "[" /\ CitationEnd(s, a) >= i

\* The places lo..hi of s that keep(_) selects, in order (split in halves).
RECURSIVE KeptBetween(_, _, _, _)
KeptBetween(s, keep, lo, hi) ==
    IF lo > hi THEN <<>>
    ELSE IF lo = hi THEN (IF lo \in keep THEN <<s[lo]>> ELSE <<>>)
    ELSE LET mid == (lo + hi) \div 2
         IN  KeptBetween(s, keep, lo, mid) \o KeptBetween(s, keep, mid + 1, hi)

\* re.sub(r'\[\d+\](?:\[\d+\])*', '', s); the result is not scanned again
StripCitations(s) ==
    KeptBetween(s, {i \in DOMAIN s : ~InCitation(s, i)}, 1, Len(s))

\* re.sub(r'\s+', ' ', s): every run of whitespace becomes one space
CollapseWhitespace(s) ==
    LET spaced == [i \in DOMAIN s |-> IF s[i] \in Whitespace THEN " " ELSE s[i]]
    IN  KeptBetween(spaced,
                    {i \in DOMAIN s : s[i] \notin Whitespace \/ i = 1
                                        \/ s[i-1] \notin Whitespace},
                    1, Len(s))

\* s.strip()
Strip(s) ==
    IF \A i \in DOMAIN s : s[i] \in Whitespace THEN <<>>
    ELSE LET lead  == CHOOSE k \in 0..Len(s) :
                        s[k+1] \notin Whitespace /\ \A j \in 1..k : s[j] \in Whitespace
             trail == CHOOSE k \in 0..Len(s) :
                        /\ s[Len(s) - k] \notin Whitespace
                        /\ \A j \in (Len(s) - k + 1)..Len(s) : s[j] \in Whitespace
         IN  SubSeq(s, lead + 1, Len(s) - trail)

\* lines 129-130
Normalize(s) == Strip(CollapseWhitespace(StripCitations(s)))

\* the cut that keeps the whole window when no late stop is found
CutAtStopOrSpace_KeepsWindow(s) ==
    LET trimmed   == Take(s, MAX_CHARS)
        last_stop == Max2(Max2(RFind(trimmed, "|"), RFind(trimmed, ".")),
                          Max2(RFind(trimmed, "!"), RFind(trimmed, "?")))
    IN  IF last_stop > MIN_STOP THEN Take(trimmed, last_stop + 1) ELSE trimmed

\* lines 132-137: the cut of an over-long text
CutAtStopOrSpace(s) ==
    LET trimmed   == Take(s, MAX_CHARS)
        last_stop == Max2(Max2(RFind(trimmed, "|"), RFind(trimmed, ".")),
                          Max2(RFind(trimmed, "!"), RFind(trimmed, "?")))
    IN  IF last_stop > MIN_STOP THEN Take(trimmed, last_stop + 1)
        ELSE PySlice(trimmed, RFind(trimmed, " "))

\* lines 138-139
AppendEllipsis(s) ==
    IF s[Len(s)] \notin Terminators THEN s \o Ellipsis ELSE s

\* lines 131-139
Truncate(s) ==
    IF Len(s) > MAX_CHARS THEN AppendEllipsis(CutAtStopOrSpace(s)) ELSE s

clean_text(s) ==
    IF s = <<>> THEN <<>> ELSE Strip(Truncate(Normalize(s)))

----------------------------------------------------------------------------
(* The inputs of clean_text: a body of filler letters carrying at most one *)
(* sentence terminator and one space at chosen places, between a prefix    *)
(* and a suffix that hold whitespace runs and citation markers.            *)

MaxTextLen == 277

BodyLengths == {0, 1, 250} \cup ((MaxTextLen - 6)..MaxTextLen)
StopPlaces  == {0, 201, 202, 272, 273, 274}
SpacePlaces == {0, 2, 201, 203, 271, 272, 273, 274}
Prefixes    == {<<>>, <<" ", "\n", "[", "1", "]", "[", "2", "0", "]">>}
Suffixes    == {<<>>, <<"\t", " ", "[", "a", "]", "[", "1", "]", "b", "?", " ">>}

Body(len, stop, stopChar, space) ==
    [i \in 1..len |-> IF i = stop THEN stopChar
                      ELSE IF i = space THEN " " ELSE "a"]

(* Each specification below runs one part of the program; the variables of
   the other parts stay as these predicates leave them. *)
NzIdle == nz_pc = "idle" /\ text = <<>> /\ cleaned = <<>>

RotIdle ==
    /\ all_profiles = <<>> /\ recent_file = <<>> /\ recent = <<>>
    /\ candidates = <<>> /\ fell_back = FALSE /\ selected = <<>> /\ rot_calls = 0

FtIdle ==
    /\ ft_pc = "idle" /\ dataset = {} /\ pending = {}
    /\ first_posts = <<>> /\ all_tweets = <<>> /\ fetched_tweets = <<>>

GpIdle ==
    /\ gp_pc = "idle" /\ tweets = <<>> /\ max_workers = 0
    /\ fut_state = <<>> /\ fut_result = <<>> /\ yielded = <<>>

DpIdle ==
    /\ DRY_RUN = FALSE /\ ATTACH_MEDIA = FALSE
    /\ images_dir = [exists |-> FALSE, files |-> {}] /\ n_clients = 1
    /\ dp_pc = "idle" /\ dp_tweets = <<>> /\ idx = 0 /\ replies_sent = 0
    /\ attempts = <<>> /\ uploads = 0 /\ creates = 0 /\ log_file = <<>>
    /\ raised = 0

QIdle == queue_file = <<>> /\ queue_before = <<>> /\ q_runs = 0

RcIdle ==
    /\ n_inst = 0 /\ inst_pc = <<>> /\ inst_recent = <<>> /\ inst_selected = <<>>
    /\ inst_logs = <<>> /\ inst_logged = <<>> /\ appended = {}
    /\ last_writer = 0 /\ overwritten = FALSE


NzInit ==
    /\ nz_pc = "input"
    /\ cleaned = <<>>
    /\ \E len \in BodyLengths, stop \in StopPlaces, stopChar \in Terminators,
          space \in SpacePlaces, pre \in Prefixes, suf \in Suffixes :
            text = pre \o Body(len, stop, stopChar, space) \o suf

\* one call of clean_text
Clean ==
    /\ nz_pc = "input"
    /\ cleaned' = clean_text(text)
    /\ nz_pc' = "cleaned"
    /\ UNCHANGED <<text, rotVars, ftVars, gpVars, cfgVars, dpVars, qVars, rcVars>>

InitClean == NzInit /\ RotIdle /\ FtIdle /\ GpIdle /\ DpIdle /\ QIdle /\ RcIdle

SpecClean == InitClean /\ [][Clean]_vars

EndsWith(s, suffix) ==
    /\ Len(s) >= Len(suffix)
    /\ SubSeq(s, Len(s) - Len(suffix) + 1, Len(s)) = suffix

OverLong == nz_pc = "cleaned" /\ Len(Normalize(text)) > MAX_CHARS

EndsInStopOrEllipsis ==
    /\ cleaned # <<>>
    /\ \/ cleaned[Len(cleaned)] \in Terminators
       \/ EndsWith(cleaned, Ellipsis)

\* C8 as stated: an over-long text is cut to at most 274 characters and ends
\* in a sentence terminator or the ellipsis marker.
C8_AsStated == OverLong => (Len(cleaned) <= 274 /\ EndsInStopOrEllipsis)

\* C8, amended: an over-long text is cut to at most 275 characters (272 kept
\* characters and the three-character marker "...") and ends in a sentence
\* terminator or in "...".
C8_CutBound == OverLong => (Len(cleaned) <= 275 /\ EndsInStopOrEllipsis)

\* an over-long text cut at a space, the marker appended, 275 characters long
C8_Witness == OverLong /\ EndsWith(cleaned, Ellipsis) /\ Len(cleaned) = 275

----------------------------------------------------------------------------
(* select_profiles.  The quota and the memory bound are counted in units   *)
(* of Scale profiles, which keeps their ratio (3 to 2) and every threshold *)
(* between the list size, the quota and the memory bound.                  *)

Scale       == 10
MaxProfiles == 5        \* the longest profiles.txt
MaxRuns     == 3        \* calls of select_profiles in a row

PROFILES_PER_RUN == 30 \div Scale
RECENT_MEMORY    == 20 \div Scale

Min2(a, b) == IF a <= b THEN a ELSE b

NoDuplicates(s) == \A i, j \in DOMAIN s : s[i] = s[j] => i = j

\* get_profiles keeps every non-empty line, repeated lines included.  The lists
\* are taken up to the names of the profiles: a new name is the next number.
ProfileLists ==
    {s \in UNION {[1..n -> 1..MaxProfiles] : n \in 0..MaxProfiles} :
        \A i \in DOMAIN s : \/ s[i] = 1
                            \/ \E j \in 1..(i-1) : s[j] >= s[i] - 1}

\* line 176
NotRecent(profiles, rec) ==
    SelectSeq(profiles, LAMBDA p : p \notin Range(rec))

\* the fallback taken one candidate too early
FallsBack_AtQuota(profiles, rec) == Len(NotRecent(profiles, rec)) <= PROFILES_PER_RUN

\* line 177
FallsBack(profiles, rec) == Len(NotRecent(profiles, rec)) < PROFILES_PER_RUN

\* lines 176-178
Candidates(profiles, rec) ==
    IF FallsBack(profiles, rec) THEN profiles ELSE NotRecent(profiles, rec)

\* a sample that may draw the same place twice (random.choices)
Samples_WithReplacement(population, k) ==
    {[i \in 1..k |-> population[f[i]]] : f \in [1..k -> DOMAIN population]}

\* random.sample(population, k): k places of the list, no place twice, in any order
Samples(population, k) ==
    {[i \in 1..k |-> population[f[i]]] :
        f \in {g \in [1..k -> DOMAIN population] : NoDuplicates(g)}}

\* lines 181-182
Remember(sel, rec) == Take(sel \o rec, RECENT_MEMORY)

RotInit ==
    /\ all_profiles \in ProfileLists
    /\ recent_file = <<>>
    /\ recent = <<>> /\ candidates = <<>> /\ fell_back = FALSE
    /\ selected = <<>> /\ rot_calls = 0

\* one call of select_profiles (lines 173-184)
SelectProfiles ==
    /\ rot_calls < MaxRuns
    /\ rot_calls' = rot_calls + 1
    /\ recent' = recent_file
    /\ fell_back' = FallsBack(all_profiles, recent_file)
    /\ candidates' = Candidates(all_profiles, recent_file)
    /\ \E sel \in Samples(candidates',
                          Min2(PROFILES_PER_RUN, Len(candidates'))) :
          /\ selected' = sel
          /\ recent_file' = Remember(sel, recent_file)
    /\ UNCHANGED <<all_profiles, nzVars, ftVars, gpVars, cfgVars, dpVars, qVars, rcVars>>

InitRotate == RotInit /\ NzIdle /\ FtIdle /\ GpIdle /\ DpIdle /\ QIdle /\ RcIdle

SpecRotate == InitRotate /\ [][SelectProfiles]_vars


FirstCallOnFullList ==
    rot_calls >= 1 /\ recent = <<>> /\ Len(all_profiles) >= PROFILES_PER_RUN

QuotaOfDistinctProfiles ==
    /\ Len(selected) = PROFILES_PER_RUN
    /\ Cardinality(Range(selected)) = PROFILES_PER_RUN
    /\ Range(selected) \subseteq Range(all_profiles)
    /\ recent_file = Take(selected, RECENT_MEMORY)

\* C4 as stated: from an empty memory and a list of at least quota entries,
\* select_profiles returns exactly quota distinct profiles of the list, and the
\* memory afterwards holds them, newest first, cut to the memory bound.
C4_AsStated == FirstCallOnFullList => QuotaOfDistinctProfiles

\* C4, amended: the same, for a profiles list in which no profile is repeated.
C4_DistinctSample ==
    (FirstCallOnFullList /\ NoDuplicates(all_profiles)) => QuotaOfDistinctProfiles

\* a first call on a list longer than the quota, the memory cut to its bound
C4_Witness ==
    /\ rot_calls = 1 /\ NoDuplicates(all_profiles)
    /\ Len(all_profiles) > PROFILES_PER_RUN
    /\ Len(selected) = PROFILES_PER_RUN
    /\ Len(recent_file) = RECENT_MEMORY

FallbackAtBoundary ==
    /\ fell_back <=>
         Cardinality(Range(recent)) > Len(all_profiles) - PROFILES_PER_RUN
    /\ fell_back <=> Len(recent) > Len(all_profiles) - PROFILES_PER_RUN
    /\ fell_back => candidates = all_profiles
    /\ ~fell_back => Range(selected) \cap Range(recent) = {}

\* C5 as stated: after any sequence of calls, the last call fell back to the
\* full list exactly when the memory it read held more than (list size - quota)
\* profiles, and otherwise selected no profile of that memory.
C5_AsStated == rot_calls >= 1 => FallbackAtBoundary

\* C5, amended: the same, for a profiles list in which no profile is repeated.
C5_FallbackBoundary ==
    (rot_calls >= 1 /\ NoDuplicates(all_profiles)) => FallbackAtBoundary

\* a later call that fell back and selected a profile of the memory it read
C5_Witness ==
    /\ rot_calls >= 2 /\ NoDuplicates(all_profiles) /\ fell_back
    /\ Len(all_profiles) >= PROFILES_PER_RUN
    /\ Range(selected) \cap Range(recent) # {}

----------------------------------------------------------------------------
(* fetch_tweets.  An item of the dataset is a record of the fields the     *)
(* code reads; "" stands for a field that is missing or empty.  The dict   *)
(* all_tweets is a function on the profiles it has as keys: the order of   *)
(* its keys only breaks ties of the sort, and the timestamps here are      *)
(* distinct.                                                               *)

TWEETS_PER_PROFILE == 1
REPLIES_TO_PROCESS == 10

MinFetchProfiles == 9
MaxFetchProfiles == 11

Item(profile, id, postText, txt, ts) ==
    [profileUrl |-> profile, postId |-> id, postText |-> postText,
     text |-> txt, timestamp |-> ts]

\* one post per profile, a later profile the more recent
OnePostEach(np) == {Item(p, p, "body", "", 10 * p) : p \in 1..np}

\* further items of the dataset: second posts of a profile, newer or older than
\* every other post, a post whose text is in the other field, an item without text
ExtraItems(np) ==
    { {},
      {Item(1, 101, "body", "", 10 * np + 5)},
      {Item(np, 102, "", "body", 5)},
      {Item(1, 101, "body", "", 10 * np + 5), Item(np + 1, 103, "", "", 10 * np + 7)},
      {Item(2, 104, "", "body", 15), Item(2, 105, "body", "", 10 * np + 9)} }

\* line 196
ItemText(item) == IF item.postText # "" THEN item.postText ELSE item.text

Tweet(item) == [id |-> item.postId, text |-> ItemText(item), timestamp |-> item.timestamp]

\* lines 200-207: the dict after one item with text
Retain(retained, item) ==
    LET profile == item.profileUrl
        had     == IF profile \in DOMAIN retained THEN retained[profile] ELSE <<>>
        now     == IF Len(had) < TWEETS_PER_PROFILE THEN Append(had, Tweet(item)) ELSE had
    IN  [q \in DOMAIN retained \cup {profile} |-> IF q = profile THEN now ELSE retained[q]]

\* lines 210-218
Flatten(retained) ==
    {[id |-> retained[q][k].id, text |-> retained[q][k].text,
      timestamp |-> retained[q][k].timestamp, profile |-> q] :
        q \in DOMAIN retained, k \in 1..TWEETS_PER_PROFILE}

\* the sort without reverse=True
SortByTimestamp_Ascending(posts) ==
    [k \in 1..Cardinality(posts) |->
        CHOOSE t \in posts :
            Cardinality({u \in posts : u.timestamp < t.timestamp}) = k - 1]

\* line 221: sort(key=timestamp, reverse=True), of posts with distinct timestamps
SortByTimestamp(posts) ==
    [k \in 1..Cardinality(posts) |->
        CHOOSE t \in posts :
            Cardinality({u \in posts : u.timestamp > t.timestamp}) = k - 1]

\* lines 210-223
MostRecent(retained) == Take(SortByTimestamp(Flatten(retained)), REPLIES_TO_PROCESS)

FtInit ==
    /\ ft_pc = "iterating"
    /\ \E np \in MinFetchProfiles..MaxFetchProfiles :
         \E extra \in ExtraItems(np) : dataset = OnePostEach(np) \cup extra
    /\ pending = dataset
    /\ first_posts = <<>> /\ all_tweets = <<>> /\ fetched_tweets = <<>>

\* one turn of the loop of line 194: the stream yields its items in any order
ConsumeItem ==
    /\ ft_pc = "iterating"
    /\ \E item \in pending :
         /\ pending' = pending \ {item}
         /\ IF ItemText(item) = ""
            THEN UNCHANGED <<all_tweets, first_posts>>
            ELSE /\ all_tweets' = Retain(all_tweets, item)
                 /\ first_posts' =
                      IF item.profileUrl \in DOMAIN first_posts THEN first_posts
                      ELSE [q \in DOMAIN first_posts \cup {item.profileUrl} |->
                              IF q = item.profileUrl THEN item ELSE first_posts[q]]
    /\ UNCHANGED <<ft_pc, dataset, fetched_tweets, nzVars, rotVars, gpVars, cfgVars, dpVars, qVars, rcVars>>

\* the stream is exhausted: lines 210-225
ReturnFetched ==
    /\ ft_pc = "iterating" /\ pending = {}
    /\ fetched_tweets' = MostRecent(all_tweets)
    /\ ft_pc' = "returned"
    /\ UNCHANGED <<dataset, pending, first_posts, all_tweets, nzVars, rotVars, gpVars, cfgVars, dpVars, qVars, rcVars>>

InitFetch == FtInit /\ NzIdle /\ RotIdle /\ GpIdle /\ DpIdle /\ QIdle /\ RcIdle

NextFetch == ConsumeItem \/ ReturnFetched

SpecFetch == InitFetch /\ [][NextFetch]_vars

\* the posts of the dataset: its items with text
Posts == {item \in dataset : ItemText(item) # ""}

PostOf(item) ==
    [id |-> item.postId, text |-> ItemText(item),
     timestamp |-> item.timestamp, profile |-> item.profileUrl]

\* the n posts of a set with the highest timestamps
Newest(posts, n) ==
    {t \in posts : Cardinality({u \in posts : u.timestamp > t.timestamp}) < n}

FetchedFromEnoughProfiles ==
    /\ ft_pc = "returned"
    /\ Cardinality({item.profileUrl : item \in Posts}) >= REPLIES_TO_PROCESS

SortedFromDistinctProfiles ==
    /\ \A i, j \in DOMAIN fetched_tweets :
          i < j => fetched_tweets[i].timestamp > fetched_tweets[j].timestamp
    /\ \A i, j \in DOMAIN fetched_tweets :
          fetched_tweets[i].profile = fetched_tweets[j].profile => i = j

\* C6 as stated: with posts of distinct timestamps across at least 10 profiles,
\* in any stream order and with any number of posts per profile, fetch_tweets
\* returns exactly the 10 posts of the highest timestamps, sorted descending,
\* each from a distinct profile.
C6_AsStated ==
    FetchedFromEnoughProfiles =>
        /\ Len(fetched_tweets) = REPLIES_TO_PROCESS
        /\ Range(fetched_tweets) = {PostOf(item) : item \in Newest(Posts, REPLIES_TO_PROCESS)}
        /\ SortedFromDistinctProfiles

\* C6, amended: fetch_tweets returns exactly the 10 posts of the highest
\* timestamps among the first post with text that the stream yields for each
\* profile, sorted descending, each from a distinct profile.
C6_NewestOfFirstPosts ==
    FetchedFromEnoughProfiles =>
        /\ Len(fetched_tweets) = REPLIES_TO_PROCESS
        /\ Range(fetched_tweets) =
             {PostOf(item) : item \in Newest(Range(first_posts), REPLIES_TO_PROCESS)}
        /\ SortedFromDistinctProfiles

\* a run over more than 10 profiles in which a profile's later-yielded post,
\* the newest of the dataset, is not among the returned ones
C6_Witness ==
    /\ FetchedFromEnoughProfiles
    /\ Cardinality(DOMAIN all_tweets) > REPLIES_TO_PROCESS
    /\ \E item \in Newest(Posts, 1) : PostOf(item) \notin Range(fetched_tweets)

----------------------------------------------------------------------------
(* generate_replies_parallel.  A commentary is a sequence: <<>> is the     *)
(* empty string, Unset a post that has no "reply_text" key yet.            *)

MaxTweets  == 4         \* posts handed to one parallel phase
MaxWorkers == 2         \* the largest MAX_PARALLEL

Unset == <<"unset">>

\* what the completion backend answers for a text, cleaned (line 252)
Analysis(txt) == <<"analysis of", txt>>

\* fetch_perplexity_analysis(txt): it returns the analysis, returns "" (no text,
\* no key, a failed or refused request), or raises
CallResults(txt) ==
    IF txt = "" THEN {[kind |-> "value", value |-> <<>>]}
    ELSE {[kind |-> "value", value |-> Analysis(txt)],
          [kind |-> "value", value |-> <<>>],
          [kind |-> "raised", value |-> <<>>]}

NoResult == [kind |-> "none", value |-> <<>>]

\* lines 266-271: what the loop stores for a finished future
ReplyOf(result) == IF result.kind = "raised" THEN <<>> ELSE result.value

\* the post a future is paired with by the place at which it completed
TweetOf_ByCompletion(future, nYielded) == nYielded + 1

\* line 265: future_to_tweet[future], the post the future was submitted for
TweetOf(future, nYielded) == future

GpInit ==
    /\ gp_pc = "running"
    /\ max_workers \in 1..MaxWorkers
    /\ \E n \in 1..MaxTweets :
         /\ \E empty \in SUBSET (1..n) :
              tweets = [i \in 1..n |->
                          [id |-> i,
                           text |-> IF i \in empty THEN "" ELSE <<"post", i>>,
                           reply_text |-> Unset]]
         /\ fut_state = [i \in 1..n |-> "queued"]
         /\ fut_result = [i \in 1..n |-> NoResult]
    /\ yielded = <<>>

\* a free worker takes the oldest queued call
StartTask ==
    /\ gp_pc = "running"
    /\ Cardinality({i \in DOMAIN fut_state : fut_state[i] = "running"}) < max_workers
    /\ \E i \in DOMAIN fut_state :
         /\ fut_state[i] = "queued"
         /\ \A j \in 1..(i-1) : fut_state[j] # "queued"
         /\ fut_state' = [fut_state EXCEPT ![i] = "running"]
    /\ UNCHANGED <<gp_pc, tweets, max_workers, fut_result, yielded,
                   nzVars, rotVars, ftVars, cfgVars, dpVars, qVars, rcVars>>

\* a running call ends
FinishTask ==
    /\ gp_pc = "running"
    /\ \E i \in DOMAIN fut_state :
         /\ fut_state[i] = "running"
         /\ \E r \in CallResults(tweets[i].text) :
              fut_result' = [fut_result EXCEPT ![i] = r]
         /\ fut_state' = [fut_state EXCEPT ![i] = "done"]
    /\ UNCHANGED <<gp_pc, tweets, max_workers, yielded, nzVars, rotVars, ftVars, cfgVars, dpVars, qVars, rcVars>>

\* one turn of the loop of line 264: as_completed yields a finished future
HandleCompleted ==
    /\ gp_pc = "running"
    /\ \E f \in DOMAIN fut_state :
         /\ fut_state[f] = "done"
         /\ f \notin Range(yielded)
         /\ tweets' = [tweets EXCEPT
                         ![TweetOf(f, Len(yielded))].reply_text = ReplyOf(fut_result[f])]
         /\ yielded' = Append(yielded, f)
    /\ UNCHANGED <<gp_pc, max_workers, fut_state, fut_result, nzVars, rotVars, ftVars, cfgVars, dpVars, qVars, rcVars>>

\* line 272
ReturnTweets ==
    /\ gp_pc = "running"
    /\ Len(yielded) = Len(tweets)
    /\ gp_pc' = "returned"
    /\ UNCHANGED <<tweets, max_workers, fut_state, fut_result, yielded,
                   nzVars, rotVars, ftVars, cfgVars, dpVars, qVars, rcVars>>

InitParallel == GpInit /\ NzIdle /\ RotIdle /\ FtIdle /\ DpIdle /\ QIdle /\ RcIdle

NextParallel == StartTask \/ FinishTask \/ HandleCompleted \/ ReturnTweets

SpecParallel == InitParallel /\ [][NextParallel]_vars

\* the call for post i failed: it raised or came back empty
TaskFailed(i) == fut_result[i].kind = "raised" \/ fut_result[i].value = <<>>

\* C2: in every interleaving, a post whose future has been handled carries the
\* generator's result for its own text, or the empty string if its call failed;
\* a post whose future has not been handled is untouched; when the phase ends
\* every post carries its commentary.
C2_OwnResult ==
    /\ \A i \in DOMAIN tweets :
         IF i \in Range(yielded)
         THEN tweets[i].reply_text =
                IF TaskFailed(i) THEN <<>> ELSE Analysis(tweets[i].text)
         ELSE tweets[i].reply_text = Unset
    /\ gp_pc = "returned" => \A i \in DOMAIN tweets : tweets[i].reply_text # Unset

\* a finished phase whose futures completed out of submission order, one call
\* having raised and a later-handled one having succeeded
C2_Witness ==
    /\ gp_pc = "returned"
    /\ \E a, b \in DOMAIN yielded :
         /\ a < b /\ yielded[a] > yielded[b]
         /\ fut_result[yielded[a]].kind = "raised"
         /\ tweets[yielded[b]].reply_text = Analysis(tweets[yielded[b]].text)

----------------------------------------------------------------------------
(* post_reply_with_account and the loop of fetch_and_reply.  A file of the *)
(* image directory is its stem and its extension.                          *)

MaxAccounts == 3        \* the largest account pool
MaxEmpty    == 2        \* the most posts of a run left without commentary

File(stem, ext) == [stem |-> stem, ext |-> ext]
None == File("", "")

\* str.lower on the extensions that occur
Lower(ext) == IF ext = "PNG" THEN "png" ELSE ext

ImageDirs ==
    { [exists |-> FALSE, files |-> {}],
      [exists |-> TRUE,  files |-> {File("notes", "txt")}],
      [exists |-> TRUE,  files |-> {File("a", "jpg"), File("b", "PNG"), File("notes", "txt")}] }

\* get_random_image(): what it may return (lines 142-150)
get_random_image ==
    IF ~ATTACH_MEDIA \/ ~images_dir.exists THEN {None}
    ELSE LET images == {f \in images_dir.files : Lower(f.ext) \in {"jpg", "jpeg", "png"}}
         IN  IF images = {} THEN {None} ELSE images

\* line 279
ImagePaths == IF ATTACH_MEDIA THEN get_random_image ELSE {None}

Outcome(ret, up, cr, logged, exc) ==
    [ret |-> ret, uploaded |-> up, created |-> cr, logged |-> logged, raised |-> exc]

\* post_reply_with_account(tweet_id, reply_text, client_info): what it returns,
\* the backend calls it makes, whether it logs, whether a call raised
\* (lines 275-315); the upload and the publish may each raise
PostOutcomes(reply_text) ==
    IF reply_text = <<>> THEN {Outcome(FALSE, 0, 0, 0, FALSE)}
    ELSE UNION {
        LET up == IF image_path # None THEN 1 ELSE 0
        IN  (IF up = 1 THEN {Outcome(FALSE, 1, 0, 0, TRUE)} ELSE {})
            \cup
            (IF DRY_RUN THEN {Outcome(TRUE, up, 0, 0, FALSE)}
             ELSE {Outcome(FALSE, up, 1, 0, TRUE), Outcome(TRUE, up, 1, 1, FALSE)})
        : image_path \in ImagePaths }

\* a save that keeps only the new entry
LogAppend_Overwrites(logs, action, details) ==
    <<[action |-> action, details |-> details]>>

\* log_action(action, details) on the logs read from the file (lines 153-160)
LogAppend(logs, action, details) ==
    Append(logs, [action |-> action, details |-> details])

\* the details of a "reply_sent" entry (lines 305-311), their content left out
ReplyDetails == <<"reply">>

\* the account of a 1-based position
AccountFor_OneBased(position, pool) == (position + 1) % pool

\* lines 336 and 367: clients[idx % len(clients)]
AccountFor(position, pool) == position % pool

\* a raise that leaves the loop
PcAfterCall_Propagates(outcome) == IF outcome.raised THEN "aborted" ELSE "loop"

\* lines 313-315: the exception is caught, the loop goes on
PcAfterCall(outcome) == "loop"

DpInitCounters ==
    /\ idx = 0 /\ replies_sent = 0 /\ attempts = <<>>
    /\ uploads = 0 /\ creates = 0 /\ log_file = <<>> /\ raised = 0

CfgInit ==
    /\ DRY_RUN \in BOOLEAN /\ ATTACH_MEDIA \in BOOLEAN
    /\ images_dir \in ImageDirs
    /\ n_clients \in 1..MaxAccounts

\* fetch_and_reply at line 329: the fetched posts carry their commentary
DpInit ==
    /\ CfgInit
    /\ dp_pc = "loop"
    /\ \E n \in 1..REPLIES_TO_PROCESS :
         \E empty \in {e \in SUBSET (1..n) : Cardinality(e) <= MaxEmpty} :
            dp_tweets = [i \in 1..n |->
                           [id |-> i,
                            reply_text |-> IF i \in empty THEN <<>> ELSE <<"reply">>]]
    /\ DpInitCounters

\* lines 332-334
SkipTweet ==
    /\ dp_pc = "loop" /\ idx < Len(dp_tweets)
    /\ dp_tweets[idx + 1].reply_text = <<>>
    /\ idx' = idx + 1
    /\ UNCHANGED <<dp_pc, dp_tweets, replies_sent, attempts, uploads, creates,
                   log_file, raised, cfgVars, nzVars, rotVars, ftVars, gpVars, qVars, rcVars>>

\* what one call of post_reply_with_account from a loop does to the state
CallPostReply(tweet, account) ==
    /\ attempts' = Append(attempts, [idx |-> idx, account |-> account])
    /\ \E o \in PostOutcomes(tweet.reply_text) :
         /\ uploads' = uploads + o.uploaded
         /\ creates' = creates + o.created
         /\ log_file' = IF o.logged = 1
                        THEN LogAppend(log_file, "reply_sent", ReplyDetails)
                        ELSE log_file
         /\ raised' = raised + (IF o.raised THEN 1 ELSE 0)
         /\ replies_sent' = replies_sent + (IF o.ret THEN 1 ELSE 0)
         /\ dp_pc' = PcAfterCall(o)

\* lines 336-342
ReplyToTweet ==
    /\ dp_pc = "loop" /\ idx < Len(dp_tweets)
    /\ dp_tweets[idx + 1].reply_text # <<>>
    /\ CallPostReply(dp_tweets[idx + 1], AccountFor(idx, n_clients))
    /\ idx' = idx + 1
    /\ UNCHANGED <<dp_tweets, cfgVars, nzVars, rotVars, ftVars, gpVars, qVars, rcVars>>

\* line 344
FinishDispatch ==
    /\ dp_pc = "loop" /\ idx = Len(dp_tweets)
    /\ dp_pc' = "done"
    /\ UNCHANGED <<dp_tweets, idx, replies_sent, attempts, uploads, creates,
                   log_file, raised, cfgVars, nzVars, rotVars, ftVars, gpVars, qVars, rcVars>>

InitDispatch == DpInit /\ NzIdle /\ RotIdle /\ FtIdle /\ GpIdle /\ QIdle /\ RcIdle

NextDispatch == SkipTweet \/ ReplyToTweet \/ FinishDispatch

SpecDispatch == InitDispatch /\ [][NextDispatch]_vars


HasCommentary(k) == dp_tweets[k + 1].reply_text # <<>>

\* C1: in dry-run mode, whatever the media toggle and the image directory, every
\* pair with commentary handed to post_reply_with_account counts as a success,
\* and neither the upload nor the reply-creation backend is called.
C1_DryRunNoBackend ==
    DRY_RUN => (replies_sent = Len(attempts) /\ uploads = 0 /\ creates = 0)

\* C3: every publish attempt for the post at 0-based position idx uses the
\* account idx modulo the pool size, the attempts are made in increasing order
\* of position, and 10 posts with commentary over a pool of 3 use the accounts
\* 0,1,2,0,1,2,0,1,2,0.
C3_RoundRobin ==
    /\ \A k \in DOMAIN attempts :
         /\ attempts[k].account = attempts[k].idx % n_clients
         /\ HasCommentary(attempts[k].idx)
         /\ k > 1 => attempts[k-1].idx < attempts[k].idx
    /\ (/\ dp_pc = "done" /\ n_clients = 3 /\ Len(dp_tweets) = 10
        /\ \A k \in 0..9 : HasCommentary(k))
       => [k \in DOMAIN attempts |-> attempts[k].account] = <<0, 1, 2, 0, 1, 2, 0, 1, 2, 0>>

\* 10 posts, all with commentary, dispatched over 3 accounts
C3_Witness ==
    /\ dp_pc = "done" /\ n_clients = 3 /\ Len(attempts) = 10

\* C7: a pair whose upload or publish raised is not counted as sent, every pair
\* with commentary up to the loop's position has been attempted whatever
\* happened to the pairs before it, and the loop stops only at the end of the
\* sequence.
C7_FailureIsolated ==
    /\ replies_sent + raised = Len(attempts)
    /\ {attempts[k].idx : k \in DOMAIN attempts} = {k \in 0..(idx - 1) : HasCommentary(k)}
    /\ dp_pc \in {"loop", "done"}
    /\ dp_pc = "done" => idx = Len(dp_tweets)
    /\ dp_pc = "loop" => ENABLED NextDispatch

\* a finished run in which an upload raised, a publish raised and a pair was sent
C7_Witness ==
    /\ dp_pc = "done" /\ raised >= 2 /\ replies_sent >= 1
    /\ uploads > creates /\ creates > replies_sent

----------------------------------------------------------------------------
(* queue_reply.  The commentary phase is taken by its result: every queued *)
(* post comes back with a commentary or with the empty string.             *)

MaxQueued    == 2       \* the most pending posts in reply_queue.json
MaxQueueRuns == 2       \* runs of queue_reply in a row

Queued(i) == [id |-> i, text |-> <<"post", i>>]

\* reply_queue.json: nothing, a profile without posts, or up to MaxQueued posts
\* under one or two profiles (the profiles are 1 and 2)
QueueFiles ==
    {<<>>, << <<>> >>}
    \cup {<<[i \in 1..m |-> Queued(i)]>> : m \in 1..MaxQueued}
    \cup UNION {{<<[i \in 1..a |-> Queued(i)], [i \in 1..(m - a) |-> Queued(a + i)]>> :
                    a \in 1..(m - 1)} : m \in 2..MaxQueued}

\* lines 352-355
RECURSIVE FlattenQueue(_)
FlattenQueue(queue) ==
    IF queue = <<>> THEN <<>>
    ELSE LET profile == Len(queue)
         IN  FlattenQueue(SubSeq(queue, 1, profile - 1))
             \o [k \in DOMAIN queue[profile] |->
                    [id |-> queue[profile][k].id, text |-> queue[profile][k].text,
                     profile |-> profile]]

\* random.shuffle(list): every order of the list
Shuffles(list) ==
    {[k \in DOMAIN list |-> list[f[k]]] :
        f \in {g \in [DOMAIN list -> DOMAIN list] : NoDuplicates(g)}}

\* generate_replies_parallel by its result (C2): each post annotated with the
\* analysis of its own text or with ""
Annotations(list) ==
    {[k \in DOMAIN list |->
        [id |-> list[k].id, text |-> list[k].text, profile |-> list[k].profile,
         reply_text |-> IF k \in failed THEN <<>> ELSE Analysis(list[k].text)]] :
        failed \in SUBSET DOMAIN list}

\* a reply that takes the post out of the persisted queue
QueueAfterReply_Removes(queue, tweet, sent) ==
    IF ~sent THEN queue
    ELSE [q \in DOMAIN queue |->
            SelectSeq(queue[q], LAMBDA t : ~(q = tweet.profile /\ t.id = tweet.id))]

\* lines 372-374: "Remove from queue (simplified)" is a comment; nothing is saved
QueueAfterReply(queue, tweet, sent) == queue

QInit ==
    /\ CfgInit
    /\ queue_file \in QueueFiles
    /\ queue_before = queue_file
    /\ q_runs = 0
    /\ dp_pc = "idle" /\ dp_tweets = <<>>
    /\ DpInitCounters

\* lines 347-350: the queue is empty, the run ends
QueueEmpty ==
    /\ dp_pc = "idle" /\ q_runs < MaxQueueRuns
    /\ queue_file = <<>>
    /\ q_runs' = q_runs + 1
    /\ UNCHANGED <<queue_file, queue_before, dpVars, cfgVars,
                   nzVars, rotVars, ftVars, gpVars, rcVars>>

\* lines 347-362: load, flatten, shuffle, generate
QueueStart ==
    /\ dp_pc = "idle" /\ q_runs < MaxQueueRuns
    /\ queue_file # <<>>
    /\ \E shuffled \in Shuffles(FlattenQueue(queue_file)) :
         dp_tweets' \in Annotations(shuffled)
    /\ idx' = 0 /\ replies_sent' = 0 /\ attempts' = <<>>
    /\ uploads' = 0 /\ creates' = 0 /\ raised' = 0
    /\ dp_pc' = "loop"
    /\ UNCHANGED <<log_file, qVars, cfgVars,
                   nzVars, rotVars, ftVars, gpVars, rcVars>>

\* line 363: the loop runs over queued_tweets[:len(clients)]
QueueLoopEnd == Min2(Len(dp_tweets), n_clients)

\* lines 364-366
QueueSkip ==
    /\ dp_pc = "loop" /\ idx < QueueLoopEnd
    /\ dp_tweets[idx + 1].reply_text = <<>>
    /\ idx' = idx + 1
    /\ UNCHANGED <<dp_pc, dp_tweets, replies_sent, attempts, uploads, creates,
                   log_file, raised, qVars, cfgVars, nzVars, rotVars, ftVars, gpVars,
                   rcVars>>

\* lines 367-374
QueueReply ==
    /\ dp_pc = "loop" /\ idx < QueueLoopEnd
    /\ dp_tweets[idx + 1].reply_text # <<>>
    /\ CallPostReply(dp_tweets[idx + 1], AccountFor(idx, n_clients))
    /\ queue_file' = QueueAfterReply(queue_file, dp_tweets[idx + 1],
                                     replies_sent' > replies_sent)
    /\ idx' = idx + 1
    /\ UNCHANGED <<dp_tweets, queue_before, q_runs, cfgVars,
                   nzVars, rotVars, ftVars, gpVars, rcVars>>

\* line 375
QueueFinish ==
    /\ dp_pc = "loop" /\ idx = QueueLoopEnd
    /\ dp_pc' = "idle"
    /\ q_runs' = q_runs + 1
    /\ UNCHANGED <<dp_tweets, idx, replies_sent, attempts, uploads, creates,
                   log_file, raised, queue_file, queue_before, cfgVars,
                   nzVars, rotVars, ftVars, gpVars, rcVars>>

InitQueue == QInit /\ NzIdle /\ RotIdle /\ FtIdle /\ GpIdle /\ RcIdle

NextQueue == QueueEmpty \/ QueueStart \/ QueueSkip \/ QueueReply \/ QueueFinish

SpecQueue == InitQueue /\ [][NextQueue]_vars

Pending(list) ==
    {[id |-> list[k].id, text |-> list[k].text, profile |-> list[k].profile] :
        k \in DOMAIN list}

----------------------------------------------------------------------------
(* One or two instances of the process that share the persisted files.     *)
(* Each runs select_profiles and then log_action some times; a load_json   *)
(* and a save_json are single steps, and nothing orders the steps of two   *)
(* instances.                                                              *)

MaxLogCalls     == 2    \* calls of log_action by one instance
MaxRaceProfiles == 2    \* the longest profiles.txt of these runs

Instances == 1..n_inst

\* the entry of an instance's k-th call of log_action
EntryOf(i, k) == [action |-> "reply_sent", details |-> <<i, k>>]

RcInit ==
    /\ n_inst \in {1, 2}
    /\ \E n \in 1..MaxRaceProfiles : all_profiles = [p \in 1..n |-> p]
    /\ recent_file = <<>> /\ log_file = <<>>
    /\ inst_pc = [i \in Instances |-> "start"]
    /\ inst_recent = [i \in Instances |-> <<>>]
    /\ inst_selected = [i \in Instances |-> <<>>]
    /\ inst_logs = [i \in Instances |-> <<>>]
    /\ inst_logged = [i \in Instances |-> 0]
    /\ appended = {} /\ last_writer = 0 /\ overwritten = FALSE
    \* the variables of select_profiles and of the loops that these runs leave alone
    /\ recent = <<>> /\ candidates = <<>> /\ fell_back = FALSE
    /\ selected = <<>> /\ rot_calls = 0
    /\ DRY_RUN = FALSE /\ ATTACH_MEDIA = FALSE
    /\ images_dir = [exists |-> FALSE, files |-> {}] /\ n_clients = 1
    /\ dp_pc = "idle" /\ dp_tweets = <<>> /\ idx = 0 /\ replies_sent = 0
    /\ attempts = <<>> /\ uploads = 0 /\ creates = 0 /\ raised = 0

rcFrame == <<all_profiles, recent, candidates, fell_back, selected, rot_calls,
             cfgVars, dp_pc, dp_tweets, idx, replies_sent, attempts, uploads,
             creates, raised, n_inst, nzVars, ftVars, gpVars, qVars>>

\* lines 174-175
ReadRecent ==
    \E i \in Instances :
        /\ inst_pc[i] = "start"
        /\ inst_recent' = [inst_recent EXCEPT ![i] = recent_file]
        /\ inst_pc' = [inst_pc EXCEPT ![i] = "selecting"]
        /\ UNCHANGED <<recent_file, log_file, inst_selected, inst_logs, inst_logged,
                       appended, last_writer, overwritten, rcFrame>>

\* lines 176-184
SaveRecent ==
    \E i \in Instances :
        /\ inst_pc[i] = "selecting"
        /\ LET cands == Candidates(all_profiles, inst_recent[i])
           IN  \E sel \in Samples(cands, Min2(PROFILES_PER_RUN, Len(cands))) :
                 /\ inst_selected' = [inst_selected EXCEPT ![i] = sel]
                 /\ recent_file' = Remember(sel, inst_recent[i])
        /\ overwritten' = (overwritten \/ recent_file # inst_recent[i])
        /\ last_writer' = i
        /\ inst_pc' = [inst_pc EXCEPT ![i] = "running"]
        /\ UNCHANGED <<log_file, inst_recent, inst_logs, inst_logged, appended, rcFrame>>

\* line 153
ReadLog ==
    \E i \in Instances :
        /\ inst_pc[i] = "running" /\ inst_logged[i] < MaxLogCalls
        /\ inst_logs' = [inst_logs EXCEPT ![i] = log_file]
        /\ inst_pc' = [inst_pc EXCEPT ![i] = "logging"]
        /\ UNCHANGED <<recent_file, log_file, inst_recent, inst_selected, inst_logged,
                       appended, last_writer, overwritten, rcFrame>>

\* lines 154-161
SaveLog ==
    \E i \in Instances :
        /\ inst_pc[i] = "logging"
        /\ LET entry == EntryOf(i, inst_logged[i] + 1)
           IN  /\ log_file' = LogAppend(inst_logs[i], entry.action, entry.details)
               /\ appended' = appended \cup {entry}
        /\ inst_logged' = [inst_logged EXCEPT ![i] = @ + 1]
        /\ inst_pc' = [inst_pc EXCEPT ![i] = "running"]
        /\ UNCHANGED <<recent_file, inst_recent, inst_selected, inst_logs,
                       last_writer, overwritten, rcFrame>>

\* the process ends
Exit ==
    \E i \in Instances :
        /\ inst_pc[i] = "running"
        /\ inst_pc' = [inst_pc EXCEPT ![i] = "exit"]
        /\ UNCHANGED <<recent_file, log_file, inst_recent, inst_selected, inst_logs,
                       inst_logged, appended, last_writer, overwritten, rcFrame>>

InitRace == RcInit /\ NzIdle /\ FtIdle /\ GpIdle /\ QIdle

NextRace == ReadRecent \/ SaveRecent \/ ReadLog \/ SaveLog \/ Exit

SpecRace == InitRace /\ [][NextRace]_vars

\* C10: with a single instance, every call of log_action leaves the earlier
\* entries in place and adds exactly one; with any number of instances the
\* memory file is what its last writer computed from the memory it had read.
\* (That two instances can lose a log entry and a selection is the witness.)
C10_ReadModifyWrite ==
    /\ n_inst = 1 => log_file = [k \in 1..Cardinality(appended) |-> EntryOf(1, k)]
    /\ last_writer # 0 =>
         recent_file = Remember(inst_selected[last_writer], inst_recent[last_writer])

\* two instances have ended: an entry one of them appended is not in the log,
\* and the memory holds only the last writer's selection, saved over a
\* selection the writer had not read
C10_Witness ==
    /\ n_inst = 2 /\ \A i \in Instances : inst_pc[i] = "exit"
    /\ \E e \in appended : e \notin Range(log_file)
    /\ overwritten
    /\ recent_file = inst_selected[last_writer]
    /\ inst_recent[last_writer] = <<>>

====
